---- MODULE Spec2Model ----
(***************************************************************************)
(* Model of the goodmap e2e harness:                                       *)
(*   - the process supervisor (.github/scripts/start-backend.sh and        *)
(*     .github/scripts/stop-backend.sh) running against an OS process      *)
(*     table,                                                              *)
(*   - the calling sequence of .github/workflows/test-base.yml,            *)
(*   - the stress measurement engine (cypress/e2e/stress-test) in its two  *)
(*     source versions, with the result accumulator of cypress.config.js.  *)
(***************************************************************************)
EXTENDS Integers, Sequences, FiniteSets, TLC

(***************************************************************************)
(* Bounds of the model.                                                    *)
(***************************************************************************)
\* Size of the process table: the supervised process and what it forks.
MaxProcs == 3
\* Number of invocations of stop-backend.sh in one calling sequence.
MaxStops == 2
\* Number of calls of stressTest:addResult when the tasks are called on
\* their own.
MaxAdds == 4

(***************************************************************************)
(* Program constants.                                                      *)
(***************************************************************************)
\* start-backend.sh: for i in {1..60}
PortPollAttempts == 60
\* stop-backend.sh: for i in {1..20}
KillPollAttempts == 20

Pids == 1..MaxProcs

VARIABLES
    \* ---- operating system ------------------------------------------------
    procs,          \* process table: pid -> [st, stubborn, matches, forkedBy]
    portInUse,      \* lsof/netstat see a listener on port 5000
    pidFile,        \* content of $PID_FILE, 0 when the file does not exist
    \* ---- start-backend.sh ------------------------------------------------
    startPc,        \* position in the script
    startI,         \* loop variable i of the port wait
    BACKEND_PID,    \* $! of the spawned command, 0 before the spawn
    startStatus,    \* exit status of the script, -1 while none
    startError,     \* which failure the script reported
    probeAlive,     \* history: liveness of the spawned pid at each probe made
    allPollsBusy,   \* history: every one of the 60 port polls found it in use
    \* ---- stop-backend.sh -------------------------------------------------
    stopPc,         \* position in the script
    PID,            \* $(cat "$PID_FILE"), 0 when not read
    ALL_DESCENDANTS,
    KILL_EXIT,
    KILLED_BY_PID,
    stopI,          \* loop variable i of the termination wait
    PKILL_EXIT,
    stopStatus,     \* exit status of the script, -1 while none
    \* ---- history of the stop invocations ---------------------------------
    stopCalls,      \* number of invocations so far
    stopArgsOk,     \* the running invocation was given both arguments
    selfMatch,      \* the pattern matches the script's own command line
    entryAlive,     \* kill -0 $PID succeeded at entry
    treeAtEntry,    \* processes forked (transitively) from $PID before entry
    pidSignals,     \* signals sent to $PID by pid in this invocation
    inSuccession,   \* previous operation was a stop on the same handle
    ceilingDesc,    \* history: descendants of PID alive when the polls ran out
    lastOp,         \* last completed operation of the caller
    \* ---- test-base.yml ---------------------------------------------------
    wfPc,           \* position in the "Run tests" step
    wfJobs,         \* background jobs of the step's shell
    wfStatus,       \* exit status of the step, -1 while none
    \* ---- stress test -----------------------------------------------------
    variant,        \* which source version of the stress test runs
    numRuns,        \* configured number of iterations
    runIndex,       \* iteration under way, from 0
    ePc,            \* position of the Cypress command queue
    previousCount,  \* closure variable of the waitUntil callback
    retries,        \* retries waitUntil has left
    markerCount,    \* markers.length seen by cy.get after stabilization
    pageCount,      \* marker and cluster elements the page shows now
    runTimes,       \* in-browser array of the single-test version
    slowestTime,    \* running maximum of the single-test version
    stressTestResults, \* cypress.config.js: accumulator in the Node process
    perfFile,       \* cypress/results/stress-test-perf.json: <<>> or <<report>>
    recorded,       \* history: number of results stored by the iterations
    failRun,        \* history: first iteration that failed, 0 when none
    failKind,       \* history: how that iteration failed
    \* generate-perf-summary.js
    cliPc,          \* "off", "start" or "exited"
    args,           \* process.argv.slice(2)
    fileKind,       \* what is at the report path: "missing", "unreadable",
                    \* "unparseable", "null" (JSON that is no object), "report"
    stdout,         \* lines written by console.log
    stderr,         \* lines written by console.error or by an uncaught error
    exitCode,       \* exit status of the process, -1 while it runs
    \* ---- cypress.config.js tasks called on their own ----------------------
    taskReturn,     \* which task was called last and what it returned
    addedEver,      \* history: every result given to stressTest:addResult
    resetAt         \* history: length of addedEver at the last stressTest:reset

osVars == <<procs, portInUse, pidFile>>
startVars == <<startPc, startI, BACKEND_PID, startStatus, startError, probeAlive,
               allPollsBusy>>
stopVars == <<stopPc, PID, ALL_DESCENDANTS, KILL_EXIT, KILLED_BY_PID, stopI,
              PKILL_EXIT, stopStatus>>
stopHist == <<stopCalls, stopArgsOk, selfMatch, entryAlive, treeAtEntry,
              pidSignals, inSuccession, ceilingDesc>>
wfVars == <<wfPc, wfJobs, wfStatus>>
supVars == <<osVars, startVars, stopVars, stopHist, lastOp, wfVars>>
engVars == <<variant, numRuns, runIndex, ePc, previousCount, retries, markerCount,
             pageCount, runTimes, slowestTime, stressTestResults, perfFile,
             recorded, failRun, failKind>>
cliVars == <<cliPc, args, fileKind, stdout, stderr, exitCode>>
taskVars == <<taskReturn, addedEver, resetAt>>
vars == <<supVars, engVars, cliVars, taskVars>>

(***************************************************************************)
(* The operating system: processes, signals, parent links.                 *)
(***************************************************************************)
NoProc == [st |-> "none", stubborn |-> FALSE, matches |-> FALSE, forkedBy |-> 0]
DeadProc(p) == [st |-> "dead", stubborn |-> FALSE, matches |-> FALSE,
                forkedBy |-> procs[p].forkedBy]

\* A process exists from its fork until it has exited; "kill" is a process
\* that has a SIGKILL pending and has not been descheduled yet.
Alive(p) == p \in Pids /\ procs[p].st \in {"run", "kill"}

\* kill -0 "$pid": success iff the process exists.
Kill0(p) == Alive(p)

\* The parent a process has now: the one that forked it while that one
\* lives, init (0) afterwards.
Ppid(p) == IF procs[p].forkedBy # 0 /\ Alive(procs[p].forkedBy)
           THEN procs[p].forkedBy ELSE 0

\* pgrep -P "$pid"
pgrepP(pid) == {c \in Pids : Alive(c) /\ Ppid(c) = pid}

\* A lookup of the direct children only.
get_children(pid) == pgrepP(pid)

\* get_descendants: children of pid, then recursively theirs.
RECURSIVE get_descendants(_)
get_descendants(pid) ==
    LET descendants == pgrepP(pid)
    IN  descendants \cup UNION {get_descendants(child) : child \in descendants}

\* Every process forked, directly or through others, from pid, whatever
\* became of the processes in between.
RECURSIVE Lineage(_)
Lineage(pid) ==
    LET kids == {c \in Pids : procs[c].st # "none" /\ procs[c].forkedBy = pid}
    IN  kids \cup UNION {Lineage(c) : c \in kids}

\* The next free pid, 0 when the table is full.
NextPid == IF \E p \in Pids : procs[p].st = "none"
           THEN CHOOSE p \in Pids : procs[p].st = "none"
                    /\ \A q \in Pids : q < p => procs[q].st # "none"
           ELSE 0

\* SIGTERM to each of targets: a process with the default disposition dies,
\* one that handles or ignores the signal goes on.
Sigterm(table, targets) ==
    [p \in Pids |->
        IF p \in targets /\ table[p].st = "run" /\ ~table[p].stubborn
        THEN [st |-> "dead", stubborn |-> FALSE, matches |-> FALSE,
              forkedBy |-> table[p].forkedBy]
        ELSE table[p]]

\* SIGKILL to each of targets: cannot be caught; the process is gone as soon
\* as the kernel gets to it.
Sigkill(table, targets) ==
    [p \in Pids |->
        IF p \in targets /\ table[p].st = "run"
        THEN [st |-> "kill", stubborn |-> FALSE, matches |-> FALSE,
              forkedBy |-> table[p].forkedBy]
        ELSE table[p]]

\* sleep: no process with a SIGKILL pending outlives a sleep of the script.
SleepOver == \A p \in Pids : procs[p].st # "kill"

\* A live process forks a child.
Fork(parent, stub, mat) ==
    /\ Alive(parent) /\ procs[parent].st = "run"
    /\ NextPid # 0
    /\ procs' = [procs EXCEPT ![NextPid] =
                    [st |-> "run", stubborn |-> stub, matches |-> mat,
                     forkedBy |-> parent]]
    /\ UNCHANGED <<portInUse, pidFile, startVars, stopVars, stopHist, lastOp, wfVars, engVars, cliVars, taskVars>>

\* A live process exits: on its own, or killed by a pending SIGKILL.
Exit(p) ==
    /\ Alive(p)
    /\ procs' = [procs EXCEPT ![p] = DeadProc(p)]
    /\ UNCHANGED <<portInUse, pidFile, startVars, stopVars, stopHist, lastOp, wfVars, engVars, cliVars, taskVars>>

\* Some process binds or releases port 5000.
PortChange ==
    /\ startPc = "portwait"
    /\ portInUse' = ~portInUse
    /\ UNCHANGED <<procs, pidFile, startVars, stopVars, stopHist, lastOp, wfVars, engVars, cliVars, taskVars>>

(***************************************************************************)
(* start-backend.sh                                                        *)
(***************************************************************************)
NoScriptRunning == startPc \in {"idle", "done"} /\ stopPc \in {"idle", "done"}

\* Lines 1-28: argument check; a missing argument ends the script with 1.
StartBegin(argsOk) ==
    /\ startPc = "idle" /\ NoScriptRunning
    /\ IF argsOk
       THEN /\ startPc' = "portwait"
            /\ startI' = 1
            /\ UNCHANGED <<startStatus, startError>>
       ELSE /\ startPc' = "done"
            /\ startStatus' = 1
            /\ startError' = "Usage"
            /\ UNCHANGED startI
    /\ lastOp' = "start"
    /\ UNCHANGED <<osVars, BACKEND_PID, probeAlive, allPollsBusy, stopVars, stopHist,
                   wfVars, engVars, cliVars, taskVars>>

\* lsof -ti:$PORT, netstat -tuln | grep ":$PORT ": the port is available
\* when neither finds it.
PortAvailable == ~portInUse

\* The port wait loop without its exit at the last attempt: the loop runs
\* out and the script goes on to spawn.
PortWaitStepNoExit(available, i) ==
    IF available \/ i = PortPollAttempts THEN "break" ELSE "sleep"

\* A port wait loop that gives up at the last attempt before looking at
\* the port.
PortWaitStepExitFirst(available, i) ==
    IF i = PortPollAttempts THEN "exit 1"
    ELSE IF available THEN "break"
    ELSE "sleep"

\* Lines 33-47: what one pass of the port wait loop does, given what the
\* port check found at attempt i.
PortWaitStep(available, i) ==
    IF available THEN "break"
    ELSE IF i = PortPollAttempts THEN "exit 1"
    ELSE "sleep"

\* Lines 30-48: one pass of the port wait loop.
StartPortPoll ==
    /\ startPc = "portwait"
    /\ allPollsBusy' = (~PortAvailable /\ startI = PortPollAttempts)
    /\ LET step == PortWaitStep(PortAvailable, startI)
       IN  IF step = "break"
           THEN /\ startPc' = "spawn"
                /\ UNCHANGED <<startI, startStatus, startError>>
           ELSE IF step = "exit 1"
                THEN /\ startPc' = "done"
                     /\ startStatus' = 1
                     /\ startError' = "PortBusyTimeout"
                     /\ UNCHANGED startI
                ELSE /\ startI' = startI + 1
                     /\ UNCHANGED <<startPc, startStatus, startError>>
    /\ UNCHANGED <<osVars, BACKEND_PID, probeAlive, stopVars, stopHist, lastOp, wfVars, engVars, cliVars, taskVars>>

\* Lines 50-55: make "$MAKE_TARGET" > "$LOG_FILE" 2>&1 & ; BACKEND_PID=$!
StartSpawn(stub, mat) ==
    /\ startPc = "spawn"
    /\ NextPid # 0
    /\ procs' = [procs EXCEPT ![NextPid] =
                    [st |-> "run", stubborn |-> stub, matches |-> mat,
                     forkedBy |-> 0]]
    /\ BACKEND_PID' = NextPid
    /\ startPc' = "persist"
    /\ startI' = 0
    /\ UNCHANGED <<portInUse, pidFile, startStatus, startError, probeAlive,
                   allPollsBusy, stopVars, stopHist, lastOp, wfVars, engVars, cliVars, taskVars>>

\* A start that does not write the pid file.
StartPersistSkipped ==
    /\ startPc = "persist"
    /\ startPc' = "sleep"
    /\ UNCHANGED <<osVars, startI, BACKEND_PID, startStatus, startError,
                   probeAlive, allPollsBusy, stopVars, stopHist, lastOp, wfVars, engVars, cliVars, taskVars>>

\* Lines 56-57: echo $BACKEND_PID > "$PID_FILE" ; disown $BACKEND_PID
StartPersist ==
    /\ startPc = "persist"
    /\ pidFile' = BACKEND_PID
    /\ startPc' = "sleep"
    /\ UNCHANGED <<procs, portInUse, startI, BACKEND_PID, startStatus, startError,
                   probeAlive, allPollsBusy, stopVars, stopHist, lastOp, wfVars, engVars, cliVars, taskVars>>

\* Lines 59-60: sleep "$STARTUP_WAIT"
StartSleep ==
    /\ startPc = "sleep"
    /\ SleepOver
    /\ startPc' = "probe"
    /\ UNCHANGED <<osVars, startI, BACKEND_PID, startStatus, startError,
                   probeAlive, allPollsBusy, stopVars, stopHist, lastOp, wfVars, engVars, cliVars, taskVars>>

\* A liveness check that never fails.
BackendNeverFailsToStart == FALSE

\* Line 63: if ! kill -0 $(cat "$PID_FILE") 2>/dev/null
BackendFailedToStart == ~Kill0(pidFile)

\* Lines 62-69: the liveness check; exit 1 when it fails, else the script
\* ends with the status of its last echo.
StartProbe ==
    /\ startPc = "probe"
    /\ probeAlive' = Append(probeAlive, Alive(BACKEND_PID))
    /\ IF BackendFailedToStart
       THEN /\ startStatus' = 1
            /\ startError' = "StartupFailure"
       ELSE /\ startStatus' = 0
            /\ startError' = "none"
    /\ startPc' = "done"
    /\ UNCHANGED <<osVars, startI, BACKEND_PID, allPollsBusy, stopVars, stopHist,
                   lastOp, wfVars, engVars, cliVars, taskVars>>

(***************************************************************************)
(* stop-backend.sh                                                         *)
(***************************************************************************)
\* Line 2: set +e. No failing command ends the script.
AbortsOnError(status) == FALSE

\* Lines 8-26: argument check, KILLED_BY_PID=false, read of the pid file and
\* the liveness probe that chooses the branch.
StopBegin(argsOk, sm) ==
    /\ NoScriptRunning
    /\ stopCalls < MaxStops
    /\ stopCalls' = stopCalls + 1
    /\ stopArgsOk' = argsOk
    /\ selfMatch' = sm
    /\ inSuccession' = (lastOp = "stop" /\ stopArgsOk /\ argsOk /\ sm = selfMatch)
    /\ lastOp' = "stop"
    /\ pidSignals' = {}
    /\ ceilingDesc' = {}
    /\ KILLED_BY_PID' = FALSE
    /\ ALL_DESCENDANTS' = {}
    /\ KILL_EXIT' = -1
    /\ PKILL_EXIT' = -1
    /\ stopI' = 0
    /\ IF ~argsOk
       THEN /\ stopPc' = "done"
            /\ stopStatus' = 1
            /\ PID' = 0
            /\ entryAlive' = FALSE
            /\ treeAtEntry' = {}
       ELSE /\ stopStatus' = -1
            /\ PID' = pidFile
            /\ entryAlive' = (pidFile # 0 /\ Kill0(pidFile))
            /\ treeAtEntry' = IF pidFile # 0 /\ Kill0(pidFile)
                              THEN {pidFile} \cup Lineage(pidFile) ELSE {}
            /\ stopPc' = IF pidFile # 0 /\ Kill0(pidFile)
                         THEN "descend" ELSE "fallback"
    /\ UNCHANGED <<osVars, startVars, wfVars, engVars, cliVars, taskVars>>

\* Lines 41-47: ALL_DESCENDANTS=$(get_descendants "$PID")
StopDescendants ==
    /\ stopPc = "descend"
    /\ ALL_DESCENDANTS' = get_descendants(PID)
    /\ stopPc' = "killpid"
    /\ UNCHANGED <<osVars, startVars, PID, KILL_EXIT, KILLED_BY_PID, stopI,
                   PKILL_EXIT, stopStatus, stopHist, lastOp, wfVars, engVars, cliVars, taskVars>>

\* Lines 49-51: kill "$PID" ; KILL_EXIT=$?
StopKillPid ==
    /\ stopPc = "killpid"
    /\ LET status == IF Kill0(PID) THEN 0 ELSE 1
       IN  /\ KILL_EXIT' = status
           /\ IF AbortsOnError(status)
              THEN stopPc' = "done" /\ stopStatus' = status
              ELSE stopPc' = "killdesc" /\ UNCHANGED stopStatus
    /\ procs' = Sigterm(procs, {PID})
    /\ pidSignals' = pidSignals \cup {"TERM"}
    /\ UNCHANGED <<portInUse, pidFile, startVars, PID, ALL_DESCENDANTS,
                   KILLED_BY_PID, stopI, PKILL_EXIT, stopCalls, stopArgsOk,
                   selfMatch, entryAlive, treeAtEntry, inSuccession, ceilingDesc,
                   lastOp, wfVars, engVars, cliVars, taskVars>>

\* Descendants signalled only when the signal to the pid succeeded.
StopKillDescendantsIfPidKilled ==
    /\ stopPc = "killdesc"
    /\ procs' = IF KILL_EXIT = 0 THEN Sigterm(procs, ALL_DESCENDANTS) ELSE procs
    /\ IF KILL_EXIT = 0
       THEN stopPc' = "poll" /\ stopI' = 1
       ELSE stopPc' = "afterpid" /\ UNCHANGED stopI
    /\ UNCHANGED <<portInUse, pidFile, startVars, PID, ALL_DESCENDANTS, KILL_EXIT,
                   KILLED_BY_PID, PKILL_EXIT, stopStatus, stopHist, lastOp, wfVars, engVars, cliVars, taskVars>>

\* Lines 53-58: xargs kill over ALL_DESCENDANTS, then the test of KILL_EXIT.
StopKillDescendants ==
    /\ stopPc = "killdesc"
    /\ procs' = Sigterm(procs, ALL_DESCENDANTS)
    /\ IF KILL_EXIT = 0
       THEN stopPc' = "poll" /\ stopI' = 1
       ELSE stopPc' = "afterpid" /\ UNCHANGED stopI
    /\ UNCHANGED <<portInUse, pidFile, startVars, PID, ALL_DESCENDANTS, KILL_EXIT,
                   KILLED_BY_PID, PKILL_EXIT, stopStatus, stopHist, lastOp, wfVars, engVars, cliVars, taskVars>>

\* A wait loop without a ceiling: it goes on until the pid and its
\* descendants are gone.
StopPollNoCeiling ==
    /\ stopPc = "poll"
    /\ IF ~Kill0(PID) /\ Cardinality(get_descendants(PID)) = 0
       THEN /\ KILLED_BY_PID' = TRUE
            /\ stopPc' = "afterpid"
            /\ stopI' = 0
       ELSE /\ SleepOver
            /\ UNCHANGED <<KILLED_BY_PID, stopPc>>
            /\ stopI' = IF stopI = KillPollAttempts THEN 1 ELSE stopI + 1
    /\ UNCHANGED <<osVars, startVars, PID, ALL_DESCENDANTS, KILL_EXIT,
                   PKILL_EXIT, stopStatus, stopHist, lastOp, wfVars, engVars, cliVars, taskVars>>

\* Lines 61-75: one pass of the wait loop.
StopPoll ==
    /\ stopPc = "poll"
    /\ IF ~Kill0(PID) /\ Cardinality(get_descendants(PID)) = 0
       THEN /\ KILLED_BY_PID' = TRUE
            /\ stopPc' = "afterpid"
            /\ stopI' = 0
       ELSE /\ SleepOver
            /\ UNCHANGED KILLED_BY_PID
            /\ IF stopI = KillPollAttempts
               THEN stopPc' = "forcepid" /\ stopI' = 0
               ELSE stopI' = stopI + 1 /\ UNCHANGED stopPc
    /\ UNCHANGED <<osVars, startVars, PID, ALL_DESCENDANTS, KILL_EXIT,
                   PKILL_EXIT, stopStatus, stopHist, lastOp, wfVars, engVars, cliVars, taskVars>>

\* Lines 77-80: kill -9 "$PID"
StopForcePid ==
    /\ stopPc = "forcepid"
    /\ procs' = Sigkill(procs, {PID})
    /\ pidSignals' = pidSignals \cup {"KILL"}
    /\ ceilingDesc' = get_descendants(PID)
    /\ stopPc' = "forcedesc"
    /\ UNCHANGED <<portInUse, pidFile, startVars, PID, ALL_DESCENDANTS, KILL_EXIT,
                   KILLED_BY_PID, stopI, PKILL_EXIT, stopStatus, stopCalls,
                   stopArgsOk, selfMatch, entryAlive, treeAtEntry,
                   inSuccession, lastOp, wfVars, engVars, cliVars, taskVars>>

\* Lines 81-86: REMAINING_DESCENDANTS=$(get_descendants "$PID") ; xargs kill -9
StopForceDescendants ==
    /\ stopPc = "forcedesc"
    /\ LET REMAINING_DESCENDANTS == get_descendants(PID)
       IN  procs' = Sigkill(procs, REMAINING_DESCENDANTS)
    /\ stopPc' = "forcesleep"
    /\ UNCHANGED <<portInUse, pidFile, startVars, PID, ALL_DESCENDANTS, KILL_EXIT,
                   KILLED_BY_PID, stopI, PKILL_EXIT, stopStatus, stopHist, lastOp,
                   wfVars, engVars, cliVars, taskVars>>

\* Lines 87-88: sleep 1 ; KILLED_BY_PID=true
StopForceSleep ==
    /\ stopPc = "forcesleep"
    /\ SleepOver
    /\ KILLED_BY_PID' = TRUE
    /\ stopPc' = "afterpid"
    /\ UNCHANGED <<osVars, startVars, PID, ALL_DESCENDANTS, KILL_EXIT, stopI,
                   PKILL_EXIT, stopStatus, stopHist, lastOp, wfVars, engVars, cliVars, taskVars>>

\* Line 99: if [ "$KILLED_BY_PID" = false ]
StopAfterPid ==
    /\ stopPc = "afterpid"
    /\ stopPc' = IF KILLED_BY_PID = FALSE THEN "fallback" ELSE "grace"
    /\ UNCHANGED <<osVars, startVars, PID, ALL_DESCENDANTS, KILL_EXIT,
                   KILLED_BY_PID, stopI, PKILL_EXIT, stopStatus, stopHist, lastOp,
                   wfVars, engVars, cliVars, taskVars>>

\* pkill -f "$CONFIG_PATTERN": SIGTERM to every process whose command line
\* matches the pattern, pkill itself excepted.
PatternMatches == {p \in Pids : procs[p].st = "run" /\ procs[p].matches}

\* Lines 100-112: the pattern fallback in its subshell. The command line of
\* the script ends with the pattern; when the pattern matches its own text
\* (as "flask.*e2e_test_config" does) pkill signals the script and its
\* subshell too, and the script dies of SIGTERM (status 128 + 15).
StopFallback ==
    /\ stopPc = "fallback"
    /\ procs' = Sigterm(procs, PatternMatches)
    /\ PKILL_EXIT' = IF PatternMatches # {} \/ selfMatch THEN 0 ELSE 1
    /\ IF selfMatch
       THEN stopPc' = "done" /\ stopStatus' = 143
       ELSE stopPc' = "grace" /\ UNCHANGED stopStatus
    /\ UNCHANGED <<portInUse, pidFile, startVars, PID, ALL_DESCENDANTS, KILL_EXIT,
                   KILLED_BY_PID, stopI, stopHist, lastOp, wfVars, engVars, cliVars, taskVars>>

\* Lines 114-117: sleep 1 ; echo "Backend stopped" ; end of script.
StopGrace ==
    /\ stopPc = "grace"
    /\ SleepOver
    /\ stopStatus' = 0
    /\ stopPc' = "done"
    /\ UNCHANGED <<osVars, startVars, PID, ALL_DESCENDANTS, KILL_EXIT,
                   KILLED_BY_PID, stopI, PKILL_EXIT, stopHist, lastOp, wfVars, engVars, cliVars, taskVars>>

(***************************************************************************)
(* .github/workflows/test-base.yml, step "Run tests" (the last step of the *)
(* job): set -e, three background jobs, then the tests in the foreground.  *)
(***************************************************************************)
\* Line 68: (cd ../goodmap-frontend && make serve)&
WfServeFrontend ==
    /\ wfPc = "frontend"
    /\ wfJobs' = wfJobs \cup {"frontend"}
    /\ wfPc' = "caddy"
    /\ UNCHANGED <<osVars, startVars, stopVars, stopHist, lastOp, wfStatus, engVars, cliVars, taskVars>>

\* Line 69: caddy run&
WfCaddy ==
    /\ wfPc = "caddy"
    /\ wfJobs' = wfJobs \cup {"caddy"}
    /\ wfPc' = "backend"
    /\ UNCHANGED <<osVars, startVars, stopVars, stopHist, lastOp, wfStatus, engVars, cliVars, taskVars>>

\* Line 70: make run-e2e-goodmap&
WfRunBackend(stub, mat) ==
    /\ wfPc = "backend"
    /\ NextPid # 0
    /\ procs' = [procs EXCEPT ![NextPid] =
                    [st |-> "run", stubborn |-> stub, matches |-> mat,
                     forkedBy |-> 0]]
    /\ wfJobs' = wfJobs \cup {"backend"}
    /\ wfPc' = "tests"
    /\ UNCHANGED <<portInUse, pidFile, startVars, stopVars, stopHist, lastOp, wfStatus, engVars, cliVars, taskVars>>

\* Line 71: make e2e-tests, in the foreground under set -e; its status is
\* the status of the step, and the step is the end of the job.
WfRunTests(testsPassed) ==
    /\ wfPc = "tests"
    /\ wfStatus' = IF testsPassed THEN 0 ELSE 2
    /\ wfPc' = "end"
    /\ UNCHANGED <<osVars, startVars, stopVars, stopHist, lastOp, wfJobs, engVars, cliVars, taskVars>>

\* The shell of the step is killed (runner cancelled or crashed).
WfCrash ==
    /\ wfPc \in {"caddy", "backend", "tests"}
    /\ wfStatus' = 137
    /\ wfPc' = "end"
    /\ UNCHANGED <<osVars, startVars, stopVars, stopHist, lastOp, wfJobs, engVars, cliVars, taskVars>>

(***************************************************************************)
(* The stress test. Two source versions are modelled:                      *)
(*   "single": cypress/e2e/stress-test/stress_test.cy.js, one test whose   *)
(*             command queue holds all iterations and then the aggregation;*)
(*   "hooks":  one test per iteration between a before and an after hook,  *)
(*             with the results kept by the tasks of cypress.config.js.    *)
(* Times are kept in half milliseconds, so that Math.round has something   *)
(* to round; the report holds whole milliseconds.                          *)
(***************************************************************************)
\* const numRuns = 5
numRunsConfigured == 5
\* const minExpectedMarkers = 10
minExpectedMarkers == 10
\* const maxAllowedTime = 20000
maxAllowedTime == 20000
\* waitUntil options: timeout: 60000, interval: 500
waitTimeout == 60000
waitInterval == 500

\* Marker counts the page can show: none, one short of the minimum, exactly
\* the minimum, more.
Counts == {0, minExpectedMarkers - 1, minExpectedMarkers, minExpectedMarkers + 1}

\* Elapsed times of a run, in half milliseconds: 3000 ms, 19999.5 ms and
\* 20000 ms.
Times == {6000, 2 * maxAllowedTime - 1, 2 * maxAllowedTime}

\* Math.round of a time given in half milliseconds, in milliseconds.
MathRound(t) == (t + 1) \div 2

\* Math.round(sum / n) for a sum given in units of 1/unit.
RoundedMean(sum, n, unit) == (2 * sum + unit * n) \div (2 * unit * n)

RECURSIVE SumOf(_, _)
SumOf(seq, field) ==
    IF seq = <<>> THEN 0
    ELSE (IF field = "time" THEN Head(seq).time ELSE Head(seq).markerCount)
         + SumOf(Tail(seq), field)

\* A minimum that is the time of the first run.
MinTimeOfFirst(seq) == seq[1].time

MinTime(seq) == CHOOSE t \in {seq[i].time : i \in 1..Len(seq)} :
                    \A i \in 1..Len(seq) : t <= seq[i].time
\* A maximum that is the time of the last run.
MaxTimeOfLast(seq) == seq[Len(seq)].time

MaxTime(seq) == CHOOSE t \in {seq[i].time : i \in 1..Len(seq)} :
                    \A i \in 1..Len(seq) : t >= seq[i].time

\* A zero-run report that carries no error field.
NoRunsReportSilent(expected) ==
    [numRuns |-> 0, expectedRuns |-> expected, runTimes |-> <<>>,
     avgTime |-> 0, minTime |-> 0, maxTime |-> 0, avgMarkers |-> 0,
     maxAllowed |-> maxAllowedTime, passed |-> FALSE,
     error |-> "none"]

\* The report written when no run completed.
NoRunsReport(expected) ==
    [numRuns |-> 0, expectedRuns |-> expected, runTimes |-> <<>>,
     avgTime |-> 0, minTime |-> 0, maxTime |-> 0, avgMarkers |-> 0,
     maxAllowed |-> maxAllowedTime, passed |-> FALSE,
     error |-> "No test runs completed"]

\* stress_test.cy.js lines 82-123: perfData from the in-browser array (times
\* unrounded, in half milliseconds) and the running maximum.
PerfDataSingle(rt, slowest, expected) ==
    IF Len(rt) > 0
    THEN [numRuns |-> Len(rt),
          expectedRuns |-> expected,
          runTimes |-> [i \in 1..Len(rt) |->
                          [run |-> i, time |-> MathRound(rt[i].time),
                           markers |-> rt[i].markerCount]],
          avgTime |-> RoundedMean(SumOf(rt, "time"), Len(rt), 2),
          minTime |-> MathRound(MinTime(rt)),
          maxTime |-> MathRound(slowest),
          avgMarkers |-> RoundedMean(SumOf(rt, "markerCount"), Len(rt), 1),
          maxAllowed |-> maxAllowedTime,
          passed |-> (slowest < 2 * maxAllowedTime /\ Len(rt) = expected),
          error |-> "none"]
    ELSE NoRunsReport(expected)

\* An aggregation that reports the configured number of runs and judges
\* on latency alone.
PerfDataHooksLatencyOnly(results, expected) ==
    IF Len(results) > 0
    THEN [numRuns |-> expected,
          expectedRuns |-> expected,
          runTimes |-> results,
          avgTime |-> RoundedMean(SumOf(results, "time"), Len(results), 1),
          minTime |-> MinTime(results),
          maxTime |-> MaxTime(results),
          avgMarkers |-> RoundedMean(SumOf(results, "markerCount"), Len(results), 1),
          maxAllowed |-> maxAllowedTime,
          passed |-> (MaxTime(results) < maxAllowedTime),
          error |-> "none"]
    ELSE NoRunsReport(expected)

\* Hooks version, after(): perfData from the results the tasks stored
\* (times already rounded to milliseconds).
PerfDataHooks(results, expected) ==
    IF Len(results) > 0
    THEN [numRuns |-> Len(results),
          expectedRuns |-> expected,
          runTimes |-> results,
          avgTime |-> RoundedMean(SumOf(results, "time"), Len(results), 1),
          minTime |-> MinTime(results),
          maxTime |-> MaxTime(results),
          avgMarkers |-> RoundedMean(SumOf(results, "markerCount"), Len(results), 1),
          maxAllowed |-> maxAllowedTime,
          passed |-> (MaxTime(results) < maxAllowedTime /\ Len(results) = expected),
          error |-> "none"]
    ELSE NoRunsReport(expected)

\* cypress.config.js, the tasks as functions of the accumulator.
\* An addResult that puts the result in front.
stressTest_addResultInFront(acc, result) == <<result>> \o acc
\* 'stressTest:addResult'(result) { stressTestResults.push(result); ... }
stressTest_addResult(acc, result) == Append(acc, result)
\* 'stressTest:getResults'() { return stressTestResults; }
stressTest_getResults(acc) == acc
\* A reset that leaves the accumulator as it is.
stressTest_resetKeepsResults(acc) == acc
\* 'stressTest:reset'() { stressTestResults = []; ... }
stressTest_reset(acc) == <<>>

\* What follows the end of an iteration. The closure variable previousCount
\* of the iteration is left as it is: the next iteration declares its own
\* (let previousCount = 0, in EReady). A failed command fails the test it
\* belongs to and drops the rest of that test's command queue: in the single
\* test that is every later iteration and the aggregation; with one test per
\* iteration the next test runs, and the after hook after the last.
IterationEnds(failed, kind) ==
    /\ failRun' = IF failed /\ failRun = 0 THEN runIndex + 1 ELSE failRun
    /\ failKind' = IF failed /\ failRun = 0 THEN kind ELSE failKind
    /\ retries' = 0
    /\ markerCount' = 0
    /\ UNCHANGED previousCount
    /\ IF variant = "single" /\ failed
       THEN ePc' = "ended" /\ UNCHANGED runIndex
       ELSE /\ runIndex' = runIndex + 1
            /\ ePc' = IF runIndex + 1 < numRuns THEN "visit"
                      ELSE IF variant = "single" THEN "aggregate" ELSE "after"

\* Hooks version: before(() => cy.task('stressTest:reset'))
EBefore ==
    /\ ePc = "before"
    /\ stressTestResults' = stressTest_reset(stressTestResults)
    /\ ePc' = "visit"
    /\ UNCHANGED <<supVars, cliVars, taskVars, variant, numRuns, pageCount, runIndex, previousCount, retries,
                   markerCount, runTimes, slowestTime, perfFile, recorded,
                   failRun, failKind>>

\* An iteration that goes from the navigation straight to the polling.
EVisitThenPoll ==
    /\ ePc = "visit"
    /\ ePc' = "poll"
    /\ pageCount' = 0
    /\ UNCHANGED <<supVars, cliVars, taskVars, variant, numRuns, runIndex, previousCount, retries,
                   markerCount, runTimes, slowestTime, stressTestResults, perfFile,
                   recorded, failRun, failKind>>

\* cy.intercept(...).as('loadLocations') ; cy.visit('/') ; startTime. The
\* page is loaded afresh and shows no marker yet.
EVisit ==
    /\ ePc = "visit"
    /\ ePc' = "ready"
    /\ pageCount' = 0
    /\ UNCHANGED <<supVars, cliVars, taskVars, variant, numRuns, runIndex, previousCount, retries,
                   markerCount, runTimes, slowestTime, stressTestResults, perfFile,
                   recorded, failRun, failKind>>

\* A wait for readiness after which previousCount is the one the iteration
\* before left behind.
EReadyKeepsPreviousCount(arrived) ==
    /\ ePc = "ready"
    /\ IF arrived
       THEN /\ ePc' = "poll"
            /\ retries' = waitTimeout \div waitInterval
            /\ UNCHANGED <<previousCount, runIndex, markerCount, failRun, failKind>>
       ELSE IterationEnds(TRUE, "ReadinessTimeout")
    /\ UNCHANGED <<supVars, cliVars, taskVars, variant, numRuns, pageCount, runTimes, slowestTime,
                   stressTestResults, perfFile, recorded>>

\* cy.wait('@loadLocations', { timeout: 60000 }), then the start of waitUntil:
\* let previousCount = 0 ; retries = Math.floor(timeout / interval)
EReady(arrived) ==
    /\ ePc = "ready"
    /\ IF arrived
       THEN /\ ePc' = "poll"
            /\ previousCount' = 0
            /\ retries' = waitTimeout \div waitInterval
            /\ UNCHANGED <<runIndex, markerCount, failRun, failKind>>
       ELSE IterationEnds(TRUE, "ReadinessTimeout")
    /\ UNCHANGED <<supVars, cliVars, taskVars, variant, numRuns, pageCount, runTimes, slowestTime,
                   stressTestResults, perfFile, recorded>>

\* A stability test without the minimum.
isStableAtAnyCount(currentCount, previous) == currentCount = previous

\* A stability test that wants more than the minimum.
isStableAboveMinimum(currentCount, previous) ==
    currentCount = previous /\ currentCount > minExpectedMarkers

\* const isStable = currentCount === previousCount && currentCount >= minExpectedMarkers
isStable(currentCount, previous) ==
    currentCount = previous /\ currentCount >= minExpectedMarkers

\* The page renders a batch of markers, or merges markers into clusters:
\* the number of elements changes while the test waits, and goes on
\* changing after the test has taken its measurement. Markers come from the
\* response to the locations request, so there are none on a page that
\* still waits for it.
PageRenders(count) ==
    /\ ePc \in {"poll", "get", "record", "visit", "aggregate", "after", "ended"}
    /\ ePc = "visit" => runIndex > 0
    /\ count # pageCount
    /\ pageCount' = count
    /\ UNCHANGED <<supVars, cliVars, taskVars, variant, numRuns, runIndex, ePc,
                   previousCount, retries, markerCount, runTimes, slowestTime,
                   stressTestResults, perfFile, recorded, failRun, failKind>>

\* One sample of waitUntil: the callback, which counts the elements on the
\* page, then the check of the result.
EPoll(currentCount) ==
    /\ ePc = "poll"
    /\ currentCount = pageCount
    /\ IF isStable(currentCount, previousCount)
       THEN /\ ePc' = "get"
            /\ previousCount' = currentCount
            /\ retries' = 0
            /\ UNCHANGED <<runIndex, markerCount, failRun, failKind>>
       ELSE IF retries < 1
            THEN IterationEnds(TRUE, "StabilizationTimeout")
            ELSE /\ retries' = retries - 1
                 /\ previousCount' = currentCount
                 /\ UNCHANGED <<ePc, runIndex, markerCount, failRun, failKind>>
    /\ UNCHANGED <<supVars, cliVars, taskVars, variant, numRuns, pageCount, runTimes, slowestTime,
                   stressTestResults, perfFile, recorded>>

\* cy.get('.leaflet-marker-icon, .leaflet-marker-cluster'): fails when it
\* finds no element.
EGet(count) ==
    /\ ePc = "get"
    /\ count = pageCount
    /\ IF count = 0
       THEN IterationEnds(TRUE, "CommandFailed")
       ELSE /\ markerCount' = count
            /\ ePc' = "record"
            /\ UNCHANGED <<runIndex, previousCount, retries, failRun, failKind>>
    /\ UNCHANGED <<supVars, cliVars, taskVars, variant, numRuns, pageCount, runTimes, slowestTime,
                   stressTestResults, perfFile, recorded>>

\* An assertion on the marker count that accepts every count.
expectMarkerCountAny(count) == TRUE

\* expect(markerCount).to.be.greaterThan(minExpectedMarkers, ...)
expectMarkerCount(count) == count > minExpectedMarkers

\* A recording callback whose failing assertion throws away what the
\* earlier iterations recorded.
ERecordFailureForgets(runTime) ==
    /\ ePc = "record"
    /\ IF variant = "single"
       THEN /\ slowestTime' = IF runTime > slowestTime THEN runTime ELSE slowestTime
            /\ recorded' = recorded + 1
            /\ IF expectMarkerCount(markerCount)
               THEN /\ runTimes' = Append(runTimes,
                                  [time |-> runTime, markerCount |-> markerCount])
                    /\ IterationEnds(FALSE, "none")
               ELSE /\ runTimes' = <<>>
                    /\ IterationEnds(TRUE, "InsufficientMarkers")
            /\ UNCHANGED stressTestResults
       ELSE /\ IF ~expectMarkerCount(markerCount)
               THEN /\ IterationEnds(TRUE, "InsufficientMarkers")
                    /\ stressTestResults' = <<>>
                    /\ UNCHANGED recorded
               ELSE IF ~(runTime < 2 * maxAllowedTime)
               THEN /\ IterationEnds(TRUE, "TooSlow")
                    /\ stressTestResults' = <<>>
                    /\ UNCHANGED recorded
               ELSE /\ stressTestResults' =
                          stressTest_addResult(stressTestResults,
                                 [run |-> runIndex + 1, time |-> MathRound(runTime),
                                  markerCount |-> markerCount])
                    /\ recorded' = recorded + 1
                    /\ IterationEnds(FALSE, "none")
            /\ UNCHANGED <<runTimes, slowestTime>>
    /\ UNCHANGED <<supVars, cliVars, taskVars, variant, numRuns, pageCount, perfFile>>

\* The callback that measures and records. In the single test it pushes to
\* runTimes and then asserts on the marker count. In the hooks version it
\* queues cy.task('stressTest:addResult') and then asserts on the marker
\* count and on the run time: a failing expect throws out of the callback
\* before the queued task has run, and the task is dropped with the test.
ERecord(runTime) ==
    /\ ePc = "record"
    /\ IF variant = "single"
       THEN /\ runTimes' = Append(runTimes,
                                  [time |-> runTime, markerCount |-> markerCount])
            /\ slowestTime' = IF runTime > slowestTime THEN runTime ELSE slowestTime
            /\ recorded' = recorded + 1
            /\ IF expectMarkerCount(markerCount)
               THEN IterationEnds(FALSE, "none")
               ELSE IterationEnds(TRUE, "InsufficientMarkers")
            /\ UNCHANGED stressTestResults
       ELSE /\ IF ~expectMarkerCount(markerCount)
               THEN /\ IterationEnds(TRUE, "InsufficientMarkers")
                    /\ UNCHANGED <<stressTestResults, recorded>>
               ELSE IF ~(runTime < 2 * maxAllowedTime)
               THEN /\ IterationEnds(TRUE, "TooSlow")
                    /\ UNCHANGED <<stressTestResults, recorded>>
               ELSE /\ stressTestResults' =
                          stressTest_addResult(stressTestResults,
                                 [run |-> runIndex + 1, time |-> MathRound(runTime),
                                  markerCount |-> markerCount])
                    /\ recorded' = recorded + 1
                    /\ IterationEnds(FALSE, "none")
            /\ UNCHANGED <<runTimes, slowestTime>>
    /\ UNCHANGED <<supVars, cliVars, taskVars, variant, numRuns, pageCount, perfFile>>

\* stress_test.cy.js lines 78-128: the cy.then at the end of the queue. It
\* queues cy.writeFile and then asserts; a failing expect throws out of the
\* callback and the queued write is dropped with the test.
EAggregate ==
    /\ ePc = "aggregate"
    /\ IF Len(runTimes) = numRuns /\ slowestTime < 2 * maxAllowedTime
       THEN perfFile' = <<PerfDataSingle(runTimes, slowestTime, numRuns)>>
       ELSE UNCHANGED perfFile
    /\ ePc' = "ended"
    /\ UNCHANGED <<supVars, cliVars, taskVars, variant, numRuns, pageCount, runIndex, previousCount, retries,
                   markerCount, runTimes, slowestTime, stressTestResults,
                   recorded, failRun, failKind>>

\* Hooks version, after(): cy.task('stressTest:getResults').then(...) with
\* cy.writeFile in both branches.
EAfter ==
    /\ ePc = "after"
    /\ perfFile' = <<PerfDataHooks(stressTest_getResults(stressTestResults), numRuns)>>
    /\ ePc' = "ended"
    /\ UNCHANGED <<supVars, cliVars, taskVars, variant, numRuns, pageCount, runIndex, previousCount, retries,
                   markerCount, runTimes, slowestTime, stressTestResults,
                   recorded, failRun, failKind>>

TasksOff ==
    /\ taskReturn = [task |-> "none", value |-> <<>>]
    /\ addedEver = <<>> /\ resetAt = 0

CliOff ==
    /\ cliPc = "off" /\ args = <<>> /\ fileKind = "missing"
    /\ stdout = <<>> /\ stderr = <<>> /\ exitCode = -1

EngineOff ==
    /\ variant = "none" /\ numRuns = 0 /\ runIndex = 0 /\ ePc = "off"
    /\ previousCount = 0 /\ retries = 0 /\ markerCount = 0 /\ pageCount = 0
    /\ runTimes = <<>> /\ slowestTime = 0 /\ stressTestResults = <<>>
    /\ perfFile = <<>> /\ recorded = 0 /\ failRun = 0 /\ failKind = "none"

(***************************************************************************)
(* The supervisor under any caller: start at most once, stop at any time   *)
(* no script is running.                                                   *)
(***************************************************************************)
OsInit ==
    /\ procs = [p \in Pids |-> NoProc]
    /\ portInUse \in BOOLEAN
    /\ pidFile = 0

StartInit ==
    /\ startPc = "idle" /\ startI = 0 /\ BACKEND_PID = 0
    /\ startStatus = -1 /\ startError = "none" /\ probeAlive = <<>>
    /\ allPollsBusy = FALSE

StopInit ==
    /\ stopPc = "idle" /\ PID = 0 /\ ALL_DESCENDANTS = {} /\ KILL_EXIT = -1
    /\ KILLED_BY_PID = FALSE /\ stopI = 0 /\ PKILL_EXIT = -1 /\ stopStatus = -1
    /\ stopCalls = 0 /\ stopArgsOk = FALSE /\ selfMatch = FALSE
    /\ entryAlive = FALSE /\ treeAtEntry = {}
    /\ pidSignals = {} /\ inSuccession = FALSE /\ lastOp = "none"
    /\ ceilingDesc = {}

WfOff == wfPc = "off" /\ wfJobs = {} /\ wfStatus = -1

SupervisorInit == OsInit /\ StartInit /\ StopInit /\ WfOff /\ EngineOff /\ CliOff /\ TasksOff

SupervisorNext ==
    \/ \E parent \in Pids, stub \in BOOLEAN, mat \in BOOLEAN : Fork(parent, stub, mat)
    \/ \E p \in Pids : Exit(p)
    \/ PortChange
    \/ \E argsOk \in BOOLEAN : StartBegin(argsOk)
    \/ StartPortPoll
    \/ \E stub \in BOOLEAN, mat \in BOOLEAN : StartSpawn(stub, mat)
    \/ StartPersist
    \/ StartSleep
    \/ StartProbe
    \/ \E argsOk \in BOOLEAN, sm \in BOOLEAN : StopBegin(argsOk, sm)
    \/ StopDescendants
    \/ StopKillPid
    \/ StopKillDescendants
    \/ StopPoll
    \/ StopForcePid
    \/ StopForceDescendants
    \/ StopForceSleep
    \/ StopAfterPid
    \/ StopFallback
    \/ StopGrace

SupervisorSpec == SupervisorInit /\ [][SupervisorNext]_vars

\* The shell runs the next command of a script that is under way: any step
\* of either script other than its start.
ScriptStep ==
    \/ StartPortPoll
    \/ \E stub \in BOOLEAN, mat \in BOOLEAN : StartSpawn(stub, mat)
    \/ StartPersist
    \/ StartSleep
    \/ StartProbe
    \/ StopDescendants
    \/ StopKillPid
    \/ StopKillDescendants
    \/ StopPoll
    \/ StopForcePid
    \/ StopForceDescendants
    \/ StopForceSleep
    \/ StopAfterPid
    \/ StopFallback
    \/ StopGrace

\* A process with a SIGKILL pending dies.
KillLands == \E p \in Pids : procs[p].st = "kill" /\ Exit(p)

\* The supervisor with a shell that keeps running its script and a kernel
\* that delivers SIGKILL.
SupervisorFairSpec ==
    SupervisorSpec /\ WF_vars(ScriptStep) /\ WF_vars(KillLands)

WorkflowInit ==
    /\ CliOff /\ TasksOff
    /\ OsInit /\ StartInit /\ StopInit
    /\ wfPc = "frontend" /\ wfJobs = {} /\ wfStatus = -1
    /\ EngineOff

WorkflowNext ==
    \/ WfServeFrontend
    \/ WfCaddy
    \/ \E stub \in BOOLEAN, mat \in BOOLEAN : WfRunBackend(stub, mat)
    \/ \E testsPassed \in BOOLEAN : WfRunTests(testsPassed)
    \/ WfCrash
    \/ \E parent \in Pids, stub \in BOOLEAN, mat \in BOOLEAN : Fork(parent, stub, mat)
    \/ \E p \in Pids : Exit(p)

WorkflowSpec == WorkflowInit /\ [][WorkflowNext]_vars

(***************************************************************************)
(* The stress test on its own, in either version, for every configured     *)
(* number of runs up to the one in the source.                             *)
(***************************************************************************)
EngineInit ==
    /\ CliOff /\ TasksOff
    /\ procs = [p \in Pids |-> NoProc] /\ portInUse = FALSE /\ pidFile = 0
    /\ StartInit /\ StopInit /\ WfOff
    /\ variant \in {"single", "hooks"}
    /\ numRuns \in 1..numRunsConfigured
    /\ runIndex = 0
    /\ ePc = IF variant = "hooks" THEN "before" ELSE "visit"
    /\ previousCount = 0 /\ retries = 0 /\ markerCount = 0 /\ pageCount = 0
    /\ runTimes = <<>> /\ slowestTime = 0 /\ stressTestResults = <<>>
    /\ perfFile = <<>> /\ recorded = 0 /\ failRun = 0 /\ failKind = "none"

EngineNext ==
    \/ EBefore
    \/ EVisit
    \/ \E arrived \in BOOLEAN : EReady(arrived)
    \/ \E currentCount \in Counts : EPoll(currentCount)
    \/ \E count \in Counts : EGet(count)
    \/ \E runTime \in Times : ERecord(runTime)
    \/ EAggregate
    \/ EAfter
    \/ \E count \in Counts : PageRenders(count)

EngineSpec == EngineInit /\ [][EngineNext]_vars

(***************************************************************************)
(* The aggregation on its own: either version stands at its aggregation    *)
(* with the results of the runs that were recorded, whose times are drawn  *)
(* from the times of the documented scenario (and, where times are kept    *)
(* unrounded, one fractional time).                                        *)
(***************************************************************************)
\* Elapsed times of the scenario, in milliseconds.
ScenarioTimes == <<3000, 2800, 3100, 2950, 3050>>
\* Marker counts of the scenario, by iteration.
ScenarioCounts == <<120, 120, 118, 121, 119>>

StatTimesMs == {ScenarioTimes[i] : i \in 1..Len(ScenarioTimes)}
\* In half milliseconds, with 2800.5 ms.
StatTimesHalfMs == {2 * t : t \in StatTimesMs} \cup {2 * 2800 + 1}

AggregationInit ==
    /\ CliOff /\ TasksOff
    /\ procs = [p \in Pids |-> NoProc] /\ portInUse = FALSE /\ pidFile = 0
    /\ StartInit /\ StopInit /\ WfOff
    /\ variant \in {"single", "hooks"}
    /\ numRuns \in 1..numRunsConfigured
    /\ runIndex = numRuns
    /\ previousCount = 0 /\ retries = 0 /\ markerCount = 0 /\ pageCount = 0
    /\ perfFile = <<>>
    /\ IF variant = "single"
       THEN /\ ePc = "aggregate"
            /\ \E f \in [1..numRuns -> StatTimesHalfMs] :
                  runTimes = [i \in 1..numRuns |->
                                [time |-> f[i], markerCount |-> ScenarioCounts[i]]]
            /\ slowestTime = MaxTime(runTimes)
            /\ stressTestResults = <<>>
            /\ recorded = numRuns
            /\ failRun = 0 /\ failKind = "none"
       ELSE /\ ePc = "after"
            /\ \E k \in 0..numRuns : \E f \in [1..k -> StatTimesMs] :
                  stressTestResults = [i \in 1..k |->
                        [run |-> i, time |-> f[i], markerCount |-> ScenarioCounts[i]]]
            /\ recorded = Len(stressTestResults)
            /\ runTimes = <<>> /\ slowestTime = 0
            /\ failRun = IF recorded < numRuns THEN recorded + 1 ELSE 0
            /\ failKind = IF recorded < numRuns THEN "ReadinessTimeout" ELSE "none"

AggregationNext ==
    \/ EAggregate
    \/ EAfter

AggregationSpec == AggregationInit /\ [][AggregationNext]_vars

(***************************************************************************)
(* The tasks of cypress.config.js called in any order, as cy.task allows   *)
(* from any spec file: the accumulator lives in the Node process for the   *)
(* whole Cypress run.                                                      *)
(***************************************************************************)
\* Results a caller can hand over; the time tells the calls apart.
TaskResults ==
    {[run |-> r, time |-> 3000 + Len(addedEver), markerCount |-> minExpectedMarkers + 1] :
        r \in 1..2}

TaskAddResult(result) ==
    /\ Len(addedEver) < MaxAdds
    /\ stressTestResults' = stressTest_addResult(stressTestResults, result)
    /\ taskReturn' = [task |-> "addResult", value |-> <<>>]
    /\ addedEver' = Append(addedEver, result)
    /\ UNCHANGED <<supVars, cliVars, resetAt, variant, numRuns, runIndex, ePc,
                   previousCount, retries, markerCount, pageCount, runTimes,
                   slowestTime, perfFile, recorded, failRun, failKind>>

TaskGetResults ==
    /\ taskReturn' = [task |-> "getResults",
                      value |-> stressTest_getResults(stressTestResults)]
    /\ UNCHANGED <<supVars, engVars, cliVars, addedEver, resetAt>>

TaskReset ==
    /\ stressTestResults' = stressTest_reset(stressTestResults)
    /\ taskReturn' = [task |-> "reset", value |-> <<>>]
    /\ resetAt' = Len(addedEver)
    /\ UNCHANGED <<supVars, cliVars, addedEver, variant, numRuns, runIndex, ePc,
                   previousCount, retries, markerCount, pageCount, runTimes,
                   slowestTime, perfFile, recorded, failRun, failKind>>

\* let stressTestResults = [] when the configuration module is loaded.
TasksInit ==
    /\ procs = [p \in Pids |-> NoProc] /\ portInUse = FALSE /\ pidFile = 0
    /\ StartInit /\ StopInit /\ WfOff
    /\ EngineOff
    /\ CliOff /\ TasksOff

TasksNext ==
    \/ \E result \in TaskResults : TaskAddResult(result)
    \/ TaskGetResults
    \/ TaskReset

TasksSpec == TasksInit /\ [][TasksNext]_vars

(***************************************************************************)
(* .github/scripts/generate-perf-summary.js                                *)
(* The output is a sequence of lines; the text of a line is kept as far as *)
(* the branches of the code make it differ.                                *)
(***************************************************************************)
Formats == {"github", "pr-comment"}

\* Command line arguments: a report path and --format options, one of them
\* with a value the script does not know.
ArgTokens == {"perf.json", "--format=github", "--format=pr-comment", "--format=xml"}
ArgLists == {<<>>} \cup [1..1 -> ArgTokens] \cup [1..2 -> ArgTokens]

\* arg.startsWith('--format=')
startsWithFormat(arg) == arg # "perf.json"
\* formatArg.split('=')[1]
formatValue(arg) ==
    CASE arg = "--format=github" -> "github"
      [] arg = "--format=pr-comment" -> "pr-comment"
      [] OTHER -> "xml"

\* Reports the script can be given: every combination of the fields its
\* branches read. expectedRuns = 0 stands for a report without that field,
\* as older versions of the test wrote it.
SummaryReports ==
    {[numRuns |-> n, expectedRuns |-> e,
      runTimes |-> [i \in 1..n |-> [run |-> i, time |-> 3000, markers |-> 11]],
      avgTime |-> IF n = 0 THEN 0 ELSE 3000,
      minTime |-> IF n = 0 THEN 0 ELSE 3000,
      maxTime |-> IF n = 0 THEN 0 ELSE mx,
      avgMarkers |-> IF n = 0 THEN 0 ELSE 11,
      maxAllowed |-> maxAllowedTime, passed |-> ok, error |-> err] :
        n \in 0..2, e \in 0..2, mx \in {3000, maxAllowedTime}, ok \in BOOLEAN,
        err \in {"none", "No test runs completed"}}

\* Status with INCOMPLETE tested before ERROR.
StatusLineCountFirst(perfData) ==
    IF perfData.expectedRuns # 0 /\ perfData.numRuns < perfData.expectedRuns
    THEN "Status: INCOMPLETE"
    ELSE IF perfData.error # "none" THEN "Status: ERROR"
    ELSE IF perfData.passed THEN "Status: PASSED"
    ELSE "Status: FAILED"

\* Lines 30-39: the status section.
StatusLine(perfData) ==
    IF perfData.error # "none" THEN "Status: ERROR"
    ELSE IF perfData.expectedRuns # 0 /\ perfData.numRuns < perfData.expectedRuns
    THEN "Status: INCOMPLETE"
    ELSE IF perfData.passed THEN "Status: PASSED"
    ELSE "Status: FAILED"

\* Lines 26-86: header, status, and when there are runs the table and the
\* run times.
RenderReport(perfData, format) ==
    <<"## E2E Stress Test Performance", StatusLine(perfData)>>
    \o (IF perfData.numRuns > 0
        THEN <<IF format = "github" THEN "table: Number of Runs"
                                    ELSE "table: Completed Runs">>
             \o (IF Len(perfData.runTimes) > 0
                 THEN <<"details: Individual Run Times">> ELSE <<>>)
        ELSE <<>>)

NotFoundWarning(format) ==
    IF format = "github"
    THEN <<"## E2E Stress Test Results: Performance data not found">>
    ELSE <<"## E2E Stress Test Results: Performance data not found. See workflow logs for details.">>

ParseWarning(format) ==
    IF format = "github"
    THEN <<"## E2E Stress Test Results: Failed to parse performance data: message">>
    ELSE <<"## E2E Stress Test Results: Failed to parse performance data. See workflow logs for details.">>

\* A summary whose read of the file is not inside a try.
generatePerfSummaryNoCatch(kind, file, format) ==
    IF kind = "missing" THEN [threw |-> FALSE, lines |-> NotFoundWarning(format)]
    ELSE IF kind \in {"unreadable", "unparseable", "null"}
    THEN [threw |-> TRUE, lines |-> <<>>]
    ELSE [threw |-> FALSE, lines |-> RenderReport(file[1], format)]

\* Lines 11-87. kind is what is at perfPath and file its parsed content. A
\* file that cannot be read or parsed throws inside the try; JSON that is
\* not an object (null) parses, and reading a property of it throws outside.
generatePerfSummary(kind, file, format) ==
    IF kind = "missing" THEN [threw |-> FALSE, lines |-> NotFoundWarning(format)]
    ELSE IF kind \in {"unreadable", "unparseable"}
    THEN [threw |-> FALSE, lines |-> ParseWarning(format)]
    ELSE IF kind = "null" THEN [threw |-> TRUE, lines |-> <<>>]
    ELSE [threw |-> FALSE, lines |-> RenderReport(file[1], format)]

\* args.find(arg => arg.startsWith('--format=')), 'github' without one.
FormatOf(list) ==
    LET found == {i \in 1..Len(list) : startsWithFormat(list[i])}
    IN  IF found = {} THEN "github"
        ELSE formatValue(list[CHOOSE i \in found : \A j \in found : i <= j])

\* What is at args[0] taken as a path: only perf.json can name a file.
KindAtPath(list) == IF list[1] = "perf.json" THEN fileKind ELSE "missing"

\* Lines 89-109: main execution.
Main ==
    /\ cliPc = "start"
    /\ cliPc' = "exited"
    /\ IF Len(args) = 0
       THEN /\ stderr' = <<"Usage: node generate-perf-summary.js <perf-json-path> [--format=github|pr-comment]">>
            /\ exitCode' = 1
            /\ UNCHANGED stdout
       ELSE IF FormatOf(args) \notin Formats
       THEN /\ stderr' = <<"Invalid format. Use --format=github or --format=pr-comment">>
            /\ exitCode' = 1
            /\ UNCHANGED stdout
       ELSE LET summary == generatePerfSummary(KindAtPath(args), perfFile, FormatOf(args))
            IN  IF summary.threw
                THEN /\ stderr' = <<"TypeError">>
                     /\ exitCode' = 1
                     /\ UNCHANGED stdout
                ELSE /\ stdout' = summary.lines
                     /\ exitCode' = 0
                     /\ UNCHANGED stderr
    /\ UNCHANGED <<supVars, engVars, taskVars, args, fileKind>>

SummaryInit ==
    /\ procs = [p \in Pids |-> NoProc] /\ portInUse = FALSE /\ pidFile = 0
    /\ StartInit /\ StopInit /\ WfOff
    /\ variant = "none" /\ numRuns = 0 /\ runIndex = 0 /\ ePc = "off"
    /\ previousCount = 0 /\ retries = 0 /\ markerCount = 0 /\ pageCount = 0
    /\ runTimes = <<>> /\ slowestTime = 0 /\ stressTestResults = <<>>
    /\ recorded = 0 /\ failRun = 0 /\ failKind = "none"
    /\ cliPc = "start"
    /\ args \in ArgLists
    /\ fileKind \in {"missing", "unreadable", "unparseable", "null", "report"}
    /\ IF fileKind = "report"
       THEN \E perfData \in SummaryReports : perfFile = <<perfData>>
       ELSE perfFile = <<>>
    /\ stdout = <<>> /\ stderr = <<>> /\ exitCode = -1
    /\ TasksOff

SummaryNext == Main

SummarySpec == SummaryInit /\ [][SummaryNext]_vars

(***************************************************************************)
(* Claims about the process supervisor.                                    *)
(***************************************************************************)
StopReturned == stopPc = "done" /\ stopArgsOk

\* C1: after stop has returned for a handle whose pid was alive at entry, no
\* process of the supervised tree is alive: neither the pid nor any process
\* forked, directly or through others, from it before stop was invoked.
C1_ZeroSurvivors ==
    (StopReturned /\ stopStatus = 0 /\ entryAlive)
        => \A p \in treeAtEntry : ~Alive(p)

\* C2: stop never raises: every invocation that was given its two arguments
\* completes with a success status, whatever the pid file, the liveness of
\* the pid, the signal deliveries and the pattern match turned out to be.
C2_StopNeverRaises ==
    StopReturned => stopStatus = 0

\* C3: stop is idempotent: the second of two invocations in succession on
\* the same handle produces no error, finds the pid not alive and without
\* descendants, and sends no signal by pid.
C3_StopIdempotent ==
    (StopReturned /\ inSuccession /\ lastOp = "stop" /\ pidFile # 0)
        => /\ stopStatus = 0
           /\ ~entryAlive
           /\ (PID # 0 => get_descendants(PID) = {})
           /\ pidSignals = {}

\* C3, the part the code keeps: whatever its exit status, the second
\* invocation finds the pid dead and childless and signals nothing by pid.
C3_SecondStopFindsNothing ==
    (inSuccession /\ stopPc # "idle")
        => /\ ~entryAlive
           /\ (PID # 0 => ~Alive(PID) /\ get_descendants(PID) = {})
           /\ pidSignals = {}

\* C4: for every started process the calling sequence invokes stop exactly
\* once, on every exit path (tests passed, tests failed, script crashed).
C4_StopOncePerStartedProcess ==
    (wfPc = "end" /\ "backend" \in wfJobs) => stopCalls = 1

\* C5: if the port is found in use at every one of the 60 polls, start fails
\* with PortBusyTimeout and the command is never spawned: no process is
\* created and no pid is written.
C5_PortBusyTimeout ==
    allPollsBusy
        => /\ startPc = "done"
           /\ startError = "PortBusyTimeout"
           /\ startStatus # 0
           /\ BACKEND_PID = 0
           /\ pidFile = 0
           /\ \A p \in Pids : procs[p].st = "none"

C5_Witness == allPollsBusy /\ startPc = "done" /\ startI = PortPollAttempts

\* C6: start fails with StartupFailure exactly when the spawned pid is not
\* alive at the one liveness probe made after the startup wait, succeeds
\* exactly when it is alive there, and probes no more after that.
C6_StartupFailureIffDeadAtProbe ==
    /\ Len(probeAlive) <= 1
    /\ (startError = "StartupFailure") <=> (probeAlive = <<FALSE>>)
    /\ (startPc = "done" /\ startStatus = 0) <=> (probeAlive = <<TRUE>>)
    /\ (startError = "StartupFailure") => (startPc = "done" /\ startStatus # 0)

\* Start has succeeded and the process has died since: nothing observes it.
C6_Witness ==
    /\ startPc = "done" /\ startStatus = 0 /\ probeAlive = <<TRUE>>
    /\ ~Alive(BACKEND_PID)

C6_WitnessFailure ==
    startPc = "done" /\ startError = "StartupFailure" /\ probeAlive = <<FALSE>>

\* C7: start writes the spawned pid to the pid file right after the spawn,
\* before the startup wait and the liveness probe; so whenever a process was
\* spawned and start has ended (success or StartupFailure) the pid file
\* holds that process's pid.
C7_PidPersistedBeforeWait ==
    /\ startPc \in {"sleep", "probe"} => (BACKEND_PID # 0 /\ pidFile = BACKEND_PID)
    /\ (startPc = "done" /\ (startStatus = 0 \/ startError = "StartupFailure"))
            => (BACKEND_PID # 0 /\ pidFile = BACKEND_PID)
    /\ (startPc = "done" /\ BACKEND_PID # 0) => pidFile = BACKEND_PID

C7_Witness ==
    /\ startPc = "done" /\ startError = "StartupFailure"
    /\ BACKEND_PID # 0 /\ pidFile = BACKEND_PID

(***************************************************************************)
(* Claims about the stress test.                                           *)
(***************************************************************************)
ReportWritten == perfFile # <<>>
Report == perfFile[1]

\* C8: for every configured number of runs N >= 1, when k <= N iterations
\* were recorded the report has numRuns = k, and passed is false whenever
\* k < N, whatever the latencies of the runs were.
C8_ReportCountsRecordedRuns ==
    ReportWritten
        => /\ Report.numRuns = recorded
           /\ Report.expectedRuns = numRuns
           /\ Report.numRuns <= Report.expectedRuns
           /\ (recorded < numRuns => ~Report.passed)

\* A report of some but not all runs, every one of them fast.
C8_Witness ==
    /\ ReportWritten
    /\ 0 < recorded /\ recorded < numRuns
    /\ Report.maxTime < Report.maxAllowed

\* C9: when at least one run was recorded, passed is true if and only if
\* the report's maximum time is strictly below the allowed time (a maximum
\* equal to the allowed time does not pass) and numRuns = expectedRuns.
C9_PassedIffWithinBudgetAndComplete ==
    (ReportWritten /\ Report.numRuns > 0)
        => (Report.passed <=> (/\ Report.maxTime < Report.maxAllowed
                               /\ Report.numRuns = Report.expectedRuns))

\* C10: at the end of every run sequence the aggregation has run and a
\* report with all its fields has been written, whatever subset of the
\* iterations completed and however the others failed.
C10_ReportAlwaysWritten ==
    ePc = "ended"
        => /\ ReportWritten
           /\ DOMAIN Report = {"numRuns", "expectedRuns", "runTimes", "avgTime",
                               "minTime", "maxTime", "avgMarkers", "maxAllowed",
                               "passed", "error"}

\* C11: when no run result exists at the aggregation, the report has
\* numRuns = 0, every numeric field zero, passed = false and the error "No
\* test runs completed"; the error field is set in no other case. Stated of
\* the report written and of what either aggregation makes of the results
\* held at any moment.
C11_ZeroRunReport ==
    LET zero(r) == /\ r.numRuns = 0 /\ r.avgTime = 0 /\ r.minTime = 0
                   /\ r.maxTime = 0 /\ r.avgMarkers = 0 /\ r.runTimes = <<>>
                   /\ ~r.passed /\ r.error = "No test runs completed"
        right(r, n) == /\ n = 0 => zero(r)
                       /\ (r.error # "none") <=> (n = 0)
    IN  /\ ReportWritten => right(Report, recorded)
        /\ right(PerfDataSingle(runTimes, slowestTime, numRuns), Len(runTimes))
        /\ right(PerfDataHooks(stressTestResults, numRuns), Len(stressTestResults))

\* A run sequence in which every iteration failed has ended with the
\* zero-run report on file.
C11_Witness ==
    /\ ePc = "ended" /\ ReportWritten /\ recorded = 0
    /\ Report.error = "No test runs completed" /\ failRun = 1

\* C12: every run result produced has a marker count of at least the
\* minimum, or the iteration that produced it is flagged InsufficientMarkers.
C12_CountAtLeastMinimumOrFlagged ==
    /\ \A i \in 1..Len(runTimes) :
          \/ runTimes[i].markerCount >= minExpectedMarkers
          \/ (failRun = i /\ failKind = "InsufficientMarkers")
    /\ \A i \in 1..Len(stressTestResults) :
          \/ stressTestResults[i].markerCount >= minExpectedMarkers
          \/ (failRun = stressTestResults[i].run /\ failKind = "InsufficientMarkers")

\* The markers found after the stabilization were fewer than the minimum:
\* the result was recorded and its iteration flagged.
C12_Witness ==
    /\ Len(runTimes) = 2
    /\ runTimes[2].markerCount < minExpectedMarkers
    /\ failRun = 2 /\ failKind = "InsufficientMarkers"

\* C13: with five configured runs, when iterations 1 and 2 were recorded
\* and iteration 3 never reached the minimum count within the poll ceiling,
\* iteration 3 records nothing, iterations 4 and 5 are never attempted and
\* the report written has numRuns = 2 and passed = false.
C13_ThirdIterationTimesOut ==
    (/\ ePc = "ended" /\ numRuns = 5
     /\ failRun = 3 /\ failKind = "StabilizationTimeout")
        => /\ recorded = 2
           /\ runIndex <= 2
           /\ ReportWritten
           /\ Report.numRuns = 2
           /\ ~Report.passed

\* The results held when the aggregation runs, and the number of time units
\* of theirs that make a millisecond.
RecordedRuns == IF variant = "single" THEN runTimes ELSE stressTestResults
UnitsPerMs == IF variant = "single" THEN 2 ELSE 1
Abs(x) == IF x < 0 THEN -x ELSE x
\* ms is t, given in units of 1/(n * UnitsPerMs) milliseconds, to the nearest
\* millisecond.
IsNearestMs(ms, t, n) == 2 * Abs(n * UnitsPerMs * ms - t) <= n * UnitsPerMs

\* C14: the report's average, minimum and maximum time are the mean, the
\* minimum and the maximum (in whole milliseconds) of the elapsed times of
\* exactly the recorded runs; for five runs, an allowed time of 20000 and
\* elapsed times [3000, 2800, 3100, 2950, 3050] the report has numRuns = 5,
\* avgTime = 2980, minTime = 2800, maxTime = 3100 and passed = true.
C14_StatsOverRecordedRuns ==
    (ReportWritten /\ Report.numRuns > 0)
        => LET rec == RecordedRuns
               k == Len(rec)
               lowest == CHOOSE i \in 1..k : \A j \in 1..k : rec[i].time <= rec[j].time
               highest == CHOOSE i \in 1..k : \A j \in 1..k : rec[i].time >= rec[j].time
           IN  /\ Report.numRuns = k
               /\ IsNearestMs(Report.minTime, rec[lowest].time, 1)
               /\ IsNearestMs(Report.maxTime, rec[highest].time, 1)
               /\ IsNearestMs(Report.avgTime, SumOf(rec, "time"), k)
               /\ (/\ numRuns = 5 /\ maxAllowedTime = 20000
                   /\ [i \in 1..k |-> rec[i].time] =
                          [i \in 1..5 |-> UnitsPerMs * ScenarioTimes[i]])
                      => /\ Report.numRuns = 5 /\ Report.avgTime = 2980
                         /\ Report.minTime = 2800 /\ Report.maxTime = 3100
                         /\ Report.passed

\* The report of the scenario has been written by the version that keeps
\* the times unrounded.
C14_Witness ==
    /\ ReportWritten /\ variant = "single" /\ numRuns = 5
    /\ [i \in 1..Len(runTimes) |-> runTimes[i].time] = [i \in 1..5 |-> 2 * ScenarioTimes[i]]
    /\ Report.avgTime = 2980 /\ Report.passed

(***************************************************************************)
(* Claims about the summary.                                               *)
(***************************************************************************)
StatusLines == {"Status: ERROR", "Status: INCOMPLETE", "Status: PASSED", "Status: FAILED"}
Rendered == cliPc = "exited" /\ exitCode = 0 /\ KindAtPath(args) = "report"

\* C15: the summary of a report has exactly one status line, chosen by
\* precedence: ERROR when error is set; otherwise INCOMPLETE when numRuns <
\* expectedRuns; otherwise PASSED or FAILED.
C15_OneStatusLineByPrecedence ==
    Rendered
        => /\ Cardinality({i \in 1..Len(stdout) : stdout[i] \in StatusLines}) = 1
           /\ \E i \in 1..Len(stdout) :
                stdout[i] = IF Report.error # "none" THEN "Status: ERROR"
                            ELSE IF Report.numRuns < Report.expectedRuns
                                 THEN "Status: INCOMPLETE"
                            ELSE IF Report.passed THEN "Status: PASSED"
                            ELSE "Status: FAILED"

\* A report with an error, fewer runs than expected and passed = true has
\* been rendered as ERROR.
C15_Witness ==
    /\ Rendered /\ Report.error # "none" /\ Report.passed
    /\ Report.numRuns < Report.expectedRuns
    /\ stdout[2] = "Status: ERROR"

\* C16: the command exits non-zero only when the report path argument is
\* missing; every other invocation, a missing or malformed report file
\* included, exits zero and prints a message on stdout.
C16_NonZeroOnlyWithoutPath ==
    cliPc = "exited"
        => /\ exitCode # 0 => args = <<>>
           /\ args # <<>> => (exitCode = 0 /\ stdout # <<>>)

\* C17: for a report path that does not exist or whose content cannot be
\* read or parsed, the summary function returns a warning in both output
\* modes and does not fail.
C17_WarningForMissingOrUnparseable ==
    /\ \A kind \in {"missing", "unreadable", "unparseable"}, format \in Formats :
          LET summary == generatePerfSummary(kind, perfFile, format)
          IN  /\ ~summary.threw
              /\ summary.lines = IF kind = "missing" THEN NotFoundWarning(format)
                                 ELSE ParseWarning(format)
    /\ (/\ cliPc = "exited" /\ args # <<>> /\ FormatOf(args) \in Formats
        /\ KindAtPath(args) \in {"missing", "unreadable", "unparseable"})
          => /\ exitCode = 0
             /\ stdout \in {NotFoundWarning(FormatOf(args)), ParseWarning(FormatOf(args))}

\* The command has printed the parse warning of the pr-comment mode.
C17_Witness ==
    /\ cliPc = "exited" /\ fileKind = "unparseable"
    /\ args # <<>> /\ args[1] = "perf.json"
    /\ FormatOf(args) = "pr-comment"
    /\ stdout = ParseWarning("pr-comment") /\ exitCode = 0

(***************************************************************************)
(* Claims about the teardown phases of stop.                               *)
(***************************************************************************)
\* C18: the graceful-termination poll ends as a success only in a state
\* where the pid is dead and the descendants recomputed at that poll are
\* none; the death of the pid alone, while processes it forked are still
\* alive, does not end the poll as a success.
C18_PollSuccessMeansTreeDead ==
    [][(stopPc = "poll" /\ stopPc' = "afterpid")
          => /\ ~Alive(PID)
             /\ get_descendants(PID) = {}
             /\ \A p \in treeAtEntry : ~Alive(p)]_vars

\* C19: when the 20 polls have run out without success, stop sends the
\* forceful signal to the pid and to every descendant of the pid alive at
\* that moment, and only after the graceful signal and all 20 polls.
C19_ForceKillsPidAndDescendants ==
    [][/\ (stopPc # "forcepid" /\ stopPc' = "forcepid")
            => (stopPc = "poll" /\ stopI = KillPollAttempts /\ "TERM" \in pidSignals)
       /\ (stopPc = "forcepid" /\ stopPc' = "forcedesc")
            => procs'[PID].st # "run"
       /\ (stopPc = "forcedesc" /\ stopPc' = "forcesleep")
            => \A p \in ceilingDesc : procs'[p].st # "run"]_vars

\* C20: the pattern-based fallback is skipped only when the teardown by pid
\* succeeded: whenever the pid or a process of its tree is still alive at
\* the end of the phase by pid, the fallback is executed; and a fallback
\* that matched nothing is not a failure of stop.
C20_FallbackUnlessTreeDead ==
    /\ (stopArgsOk /\ stopPc = "grace" /\ PKILL_EXIT = -1)
          => \A p \in treeAtEntry : ~Alive(p)
    /\ (StopReturned /\ PKILL_EXIT = 1) => stopStatus = 0

\* C21: when the pid file is absent, or the pid it holds is not alive when
\* stop reads it, stop sends no signal by pid or to descendants, goes
\* directly to the pattern-based fallback and completes without error.
C21_DeadPidGoesToFallback ==
    (stopArgsOk /\ ~entryAlive /\ stopPc # "idle")
        => /\ stopPc \in {"fallback", "grace", "done"}
           /\ pidSignals = {} /\ ALL_DESCENDANTS = {} /\ KILL_EXIT = -1
           /\ stopPc \in {"grace", "done"} => PKILL_EXIT # -1
           /\ stopPc = "done" => stopStatus = 0

\* The processes that have pid among their ancestors by the parent relation
\* of the present state, found by widening a set until nothing is added.
RECURSIVE Widen(_, _, _)
Widen(pid, found, n) ==
    IF n = 0 THEN found
    ELSE Widen(pid,
               found \cup {c \in Pids : Alive(c) /\ Ppid(c) \in found \cup {pid}},
               n - 1)
DescendantClosure(pid) == Widen(pid, {}, MaxProcs)

\* C22: the descendant set stop computes for the pid is the full transitive
\* closure of the parent-to-children relation as it is at that moment
\* (children, grandchildren and deeper), and it is computed afresh at each
\* use: before the graceful signal, at every poll, and for the forceful
\* signal.
C22_DescendantsAreTransitiveClosure ==
    [][/\ (stopPc = "descend" /\ stopPc' = "killpid")
            => ALL_DESCENDANTS' = DescendantClosure(PID)
       /\ (stopPc = "poll" /\ stopPc' = "afterpid")
            => DescendantClosure(PID) = {}
       /\ (stopPc = "forcedesc" /\ stopPc' = "forcesleep")
            => \A p \in DescendantClosure(PID) : procs'[p].st # "run"]_vars

\* The set computed holds a grandchild of the pid.
C22_Witness ==
    /\ stopPc = "killpid"
    /\ \E g \in ALL_DESCENDANTS :
          /\ procs[g].forkedBy \in ALL_DESCENDANTS
          /\ procs[procs[g].forkedBy].forkedBy = PID

\* C23: when the pid is alive at entry, stop sends the graceful signal to
\* the pid and to every member of the descendant set computed beforehand;
\* the descendants are signalled whether or not signalling the pid
\* succeeded. (A process that does not ignore the signal is dead after it.)
C23_GracefulSignalToPidAndDescendants ==
    [][/\ (stopPc = "killpid" /\ stopPc # stopPc')
            => /\ entryAlive /\ stopPc' = "killdesc"
               /\ (procs[PID].st = "run" /\ ~procs[PID].stubborn) => ~Alive(PID)'
               /\ KILL_EXIT' = IF Alive(PID) THEN 0 ELSE 1
       /\ (stopPc = "killdesc" /\ stopPc # stopPc')
            => \A p \in ALL_DESCENDANTS :
                  (procs[p].st = "run" /\ ~procs[p].stubborn) => ~Alive(p)'
       /\ (entryAlive' /\ stopPc = "idle" /\ stopPc' # "idle") => stopPc' = "descend"]_vars

\* The signal to the pid failed, the pid having died after the probe, and
\* a descendant found before that has been signalled all the same.
C23_Witness ==
    /\ stopPc = "afterpid" /\ KILL_EXIT = 1
    /\ \E p \in ALL_DESCENDANTS : procs[p].st = "dead"

\* C24: no failure of a command inside stop (probe, descendant lookup,
\* signal to the pid, signal to the descendants, pattern kill) keeps the
\* later steps from running: every execution that was given its arguments
\* comes to the final grace sleep and returns from there.
C24_StopAlwaysReachesGraceSleep ==
    [][(stopPc # "done" /\ stopPc' = "done" /\ stopArgsOk')
          => stopPc = "grace"]_vars

\* C25: start polls the port at most 60 times and spawns the command only
\* after a poll has found the port free; a port found free at any attempt
\* from 1 to 60, the 60th included, lets start go on to the spawn.
C25_SpawnOnlyAfterFreePort ==
    [][/\ startI' <= PortPollAttempts
       /\ (startPc = "portwait" /\ startPc' # "portwait")
            => (startPc' = "spawn" <=> PortAvailable)
       /\ (startPc = "portwait" /\ PortAvailable /\ startPc' # startPc)
            => startPc' = "spawn"
       /\ (startPc # "spawn" /\ startPc' = "spawn")
            => (startPc = "portwait" /\ PortAvailable /\ startI \in 1..PortPollAttempts)
       /\ (BACKEND_PID = 0 /\ BACKEND_PID' # 0) => startPc = "spawn"]_vars

\* The port was found free at the 60th attempt and start stands before the
\* spawn.
C25_Witness == startPc = "spawn" /\ startI = PortPollAttempts

\* C26: every execution of start and of stop terminates: each wait (for
\* the port, for the startup, for the graceful termination, after the
\* escalation, the grace sleep) has a fixed ceiling and no step blocks
\* without bound, whatever the supervised processes do.
C26_StartAndStopTerminate ==
    /\ (startPc \notin {"idle", "done"}) ~> (startPc = "done")
    /\ (stopPc \notin {"idle", "done"}) ~> (stopPc = "done")

\* A stop has returned after all its waits: the 20 polls, the wait after
\* the forceful signal and the grace sleep.
C26_Witness ==
    /\ stopPc = "done" /\ stopStatus = 0
    /\ "KILL" \in pidSignals /\ KILLED_BY_PID

(***************************************************************************)
(* Claims about one iteration of the stress test.                          *)
(***************************************************************************)
IterationOver(pc) == pc \in {"visit", "aggregate", "after", "ended"}

\* C27: the stabilization phase ends successfully at the first sample whose
\* count equals the count of the sample before it in the same iteration
\* and is at least the minimum; when no sample does so before the poll
\* ceiling, the iteration fails with StabilizationTimeout.
C27_StableAtFirstRepeatedSample ==
    [][/\ (ePc # "poll" /\ ePc' = "poll")
            => (previousCount' = 0 /\ retries' = waitTimeout \div waitInterval)
       /\ (ePc = "poll" /\ ePc' = "get")
            => /\ pageCount = previousCount /\ pageCount >= minExpectedMarkers
               /\ previousCount' = pageCount
       /\ (ePc = "poll" /\ ePc' = "poll" /\ pageCount' = pageCount)
            => /\ ~(pageCount = previousCount /\ pageCount >= minExpectedMarkers)
               /\ retries' = retries - 1
               /\ previousCount' = pageCount
       /\ (ePc = "poll" /\ ePc' \notin {"poll", "get"})
            => /\ retries = 0
               /\ IterationOver(ePc')
               /\ failRun' # 0
               /\ failRun = 0 => (failRun' = runIndex + 1
                                  /\ failKind' = "StabilizationTimeout")]_vars

\* Stabilization has been declared at exactly the minimum count.
C27_Witness == ePc = "get" /\ previousCount = minExpectedMarkers

\* C28: the marker count stored in an iteration's result equals the count
\* of the poll sample at which stabilization was declared, also when the
\* collection changes size between that sample and the recording.
C28_StoredCountIsStabilizedCount ==
    [][/\ Len(runTimes') = Len(runTimes) + 1
            => runTimes'[Len(runTimes')].markerCount = previousCount
       /\ Len(stressTestResults') = Len(stressTestResults) + 1
            => stressTestResults'[Len(stressTestResults')].markerCount = previousCount]_vars

\* C29: an iteration that stabilizes with a marker count of at most the
\* minimum fails with InsufficientMarkers, and its result has nevertheless
\* been appended, so that the aggregation sees it in the report.
C29_InsufficientMarkersStillRecorded ==
    (ePc = "ended" /\ failKind = "InsufficientMarkers")
        => /\ ReportWritten
           /\ \E i \in 1..Len(Report.runTimes) : Report.runTimes[i].run = failRun

\* C30: an iteration goes through navigation, the wait for the readiness
\* signal and the polling for stabilization in that order; a result is
\* appended only after the readiness signal arrived and the stabilization
\* succeeded in that iteration, and an iteration that times out in either
\* phase appends nothing.
C30_IterationProtocol ==
    [][/\ (ePc = "visit" /\ ePc' # ePc) => ePc' = "ready"
       /\ (ePc = "ready" /\ ePc' # ePc) => (ePc' = "poll" \/ IterationOver(ePc'))
       /\ (ePc = "poll" /\ ePc' # ePc) => (ePc' = "get" \/ IterationOver(ePc'))
       /\ (ePc = "get" /\ ePc' # ePc) => (ePc' = "record" \/ IterationOver(ePc'))
       /\ (ePc = "record" /\ ePc' # ePc) => IterationOver(ePc')
       /\ (ePc' = "poll" /\ ePc' # ePc) => ePc = "ready"
       /\ (ePc' = "get" /\ ePc' # ePc) => ePc = "poll"
       /\ (ePc' = "record" /\ ePc' # ePc) => ePc = "get"
       /\ (runTimes' # runTimes \/ stressTestResults' # stressTestResults
           \/ recorded' # recorded)
            => /\ ePc \in {"record", "before"}
               /\ ePc = "record" => recorded' = recorded + 1
       /\ ePc \in {"visit", "ready", "poll", "get"}
            => UNCHANGED <<runTimes, stressTestResults, recorded>>]_vars

\* The first iteration was recorded and the second, which timed out in the
\* polling, appended nothing.
C30_Witness ==
    /\ recorded = 1 /\ Len(stressTestResults) = 1 /\ runIndex = 2
    /\ failRun = 2 /\ failKind = "StabilizationTimeout"

(***************************************************************************)
(* Claims about the result accumulator.                                    *)
(***************************************************************************)
AddedSinceReset == SubSeq(addedEver, resetAt + 1, Len(addedEver))

\* C39: after stressTest:reset and any sequence of stressTest:addResult
\* calls, stressTest:getResults returns exactly the results added since
\* that reset, in insertion order; getResults leaves the accumulator
\* unchanged, and results added before the reset never appear.
C39_GetResultsReturnsAddedSinceReset ==
    [][/\ stressTestResults' = AddedSinceReset'
       /\ taskReturn'.task = "getResults"
            => /\ taskReturn'.value = AddedSinceReset'
               /\ stressTestResults' = stressTestResults]_vars

\* Results were added, the accumulator was reset, two more were added and
\* read back.
C39_Witness ==
    /\ taskReturn.task = "getResults"
    /\ resetAt >= 1
    /\ Len(taskReturn.value) = 2
    /\ taskReturn.value[1].run # taskReturn.value[2].run

(***************************************************************************)
(* Claims about the sequence of results and the report made from it.       *)
(***************************************************************************)
IsPrefix(s, t) == Len(s) <= Len(t) /\ SubSeq(t, 1, Len(s)) = s

\* C31: a timeout or failure in an iteration leaves the results recorded by
\* the iterations before it unchanged: every step of an iteration keeps the
\* recorded entries as they are and in their order, and the aggregation
\* reads the same entries in the same order.
C31_RecordedResultsKeptOnFailure ==
    [][/\ ePc # "before"
            => /\ IsPrefix(runTimes, runTimes')
               /\ IsPrefix(stressTestResults, stressTestResults')
       /\ (failRun' # failRun /\ variant = "hooks")
            => stressTestResults' = stressTestResults
       /\ (ePc = "after" /\ ePc' = "ended")
            => Report'.runTimes = stressTestResults
       /\ (ePc = "aggregate" /\ perfFile' # perfFile)
            => /\ Len(Report'.runTimes) = Len(runTimes)
               /\ \A i \in 1..Len(runTimes) :
                     /\ Report'.runTimes[i].time = MathRound(runTimes[i].time)
                     /\ Report'.runTimes[i].markers = runTimes[i].markerCount]_vars

\* The first iteration was recorded, the second failed, and the report
\* holds the entry of the first.
C31_Witness ==
    /\ variant = "hooks" /\ ePc = "ended" /\ ReportWritten
    /\ failRun = 2
    /\ Len(Report.runTimes) >= 1
    /\ Report.runTimes[1].run = 1

\* Iterations that were begun.
Attempted == IF variant = "single" /\ failRun # 0 THEN failRun ELSE runIndex

\* C32: a failure of one iteration (ReadinessTimeout, StabilizationTimeout
\* or InsufficientMarkers) is local: the remaining iterations are still
\* attempted, and the report shows the reduced numRuns with passed = false.
C32_FailureIsLocal ==
    (ePc = "ended"
     /\ failKind \in {"ReadinessTimeout", "StabilizationTimeout", "InsufficientMarkers"})
        => /\ Attempted = numRuns
           /\ ReportWritten
           /\ Report.numRuns < Report.expectedRuns
           /\ ~Report.passed

\* C33: in every report the per-run entries carry 1-based run indices that
\* are pairwise distinct and appear in the order the runs were recorded,
\* and there are exactly numRuns of them.
C33_RunIndicesDistinctOrdered ==
    ReportWritten
        => /\ Len(Report.runTimes) = Report.numRuns
           /\ \A i \in 1..Len(Report.runTimes) :
                 /\ Report.runTimes[i].run \in 1..numRuns
                 /\ \A j \in 1..Len(Report.runTimes) :
                       i < j => Report.runTimes[i].run < Report.runTimes[j].run
           /\ variant = "hooks"
                 => \A i \in 1..Len(Report.runTimes) :
                       Report.runTimes[i].run = stressTestResults[i].run

\* A report of the first and the third run, the second having failed.
C33_Witness ==
    /\ ReportWritten /\ variant = "hooks"
    /\ Len(Report.runTimes) = 2
    /\ Report.runTimes[1].run = 1
    /\ Report.runTimes[2].run = 3

\* C34: the aggregation is invoked exactly once per run sequence, after all
\* iterations have ended: the run sequence ends by the aggregation step
\* and by nothing else, and only that step writes the report.
C34_AggregationRunsOnce ==
    [][/\ (ePc' = "ended" /\ ePc # "ended") => ePc \in {"aggregate", "after"}
       /\ ePc \in {"aggregate", "after"} => (ePc' = "ended" \/ ePc' = ePc)
       /\ (ePc' \in {"aggregate", "after"} /\ ePc' # ePc) => runIndex' = numRuns
       /\ perfFile' # perfFile => ePc \in {"aggregate", "after"}]_vars

\* C35: for a report with no error and numRuns >= expectedRuns the status
\* of the summary is PASSED exactly when maxTime < maxAllowed and FAILED
\* exactly when maxTime >= maxAllowed.
C35_StatusFollowsMaxTime ==
    (Rendered /\ Report.error = "none" /\ Report.numRuns >= Report.expectedRuns)
        => /\ (\E i \in 1..Len(stdout) : stdout[i] = "Status: PASSED")
                <=> Report.maxTime < Report.maxAllowed
           /\ (\E i \in 1..Len(stdout) : stdout[i] = "Status: FAILED")
                <=> Report.maxTime >= Report.maxAllowed

C37_NeverStableOnFirstSample ==
    [][/\ (ePc = "ready" /\ ePc' = "poll") => previousCount' = 0
       /\ (ePc = "poll" /\ ePc' = "get")
            => /\ retries < waitTimeout \div waitInterval
               /\ pageCount = previousCount
               /\ pageCount # 0]_vars

\* A second iteration, begun after the first left its last count behind,
\* has been declared stable.
C37_Witness ==
    /\ runIndex >= 1 /\ ePc = "get"
    /\ previousCount >= minExpectedMarkers
    /\ retries = 0

\* C38: every report written has 0 <= numRuns <= expectedRuns, and when
\* numRuns > 0 also minTime <= avgTime <= maxTime, with maxTime the largest
\* elapsed time among the recorded runs; the running maximum kept during
\* the iterations is the maximum over the recorded sequence.
C38_ReportStatisticsOrdered ==
    /\ (variant = "single" /\ runTimes # <<>>)
          => /\ \E i \in 1..Len(runTimes) : runTimes[i].time = slowestTime
             /\ \A i \in 1..Len(runTimes) : runTimes[i].time <= slowestTime
    /\ ReportWritten
          => /\ 0 <= Report.numRuns /\ Report.numRuns <= Report.expectedRuns
             /\ Report.numRuns > 0
                   => /\ Report.minTime <= Report.avgTime
                      /\ Report.avgTime <= Report.maxTime
                      /\ \E i \in 1..Len(Report.runTimes) :
                            Report.runTimes[i].time = Report.maxTime
                      /\ \A i \in 1..Len(Report.runTimes) :
                            Report.runTimes[i].time <= Report.maxTime

\* A report of several runs in which an earlier run was the slowest.
C38_Witness ==
    /\ ReportWritten
    /\ Report.numRuns >= 2
    /\ Report.minTime < Report.avgTime
    /\ Report.avgTime < Report.maxTime
    /\ Report.runTimes[1].time = Report.maxTime
    /\ Report.runTimes[Report.numRuns].time < Report.maxTime

====
